---- MODULE Spec2Model ----
(***************************************************************************)
(* Model of tgmusic.py, the Telethon music copier: one process running the *)
(* auto-retry loop around main(), the backfill coroutine, the update       *)
(* handlers the client dispatches as concurrent tasks, and the two JSON    *)
(* files progress.json and seen.json.                                      *)
(*                                                                         *)
(* Scheduling is asyncio's: a coroutine runs without interruption until it *)
(* reaches an await; input() and time.sleep() block the whole event loop.  *)
(* Every action below is one such uninterrupted run.                       *)
(***************************************************************************)
EXTENDS Integers, Sequences, FiniteSets, TLC

\* ---------------------------------------------------------------- bounds
MaxMsg == 2        \* message ids the source channel can reach

\* ------------------------------------------------------------ constants
DefaultSaveEvery == 10     \* handle_message(msg, save_every=10)
SrcId == 1                 \* src.id, the id of the entity SOURCE resolves to
MarkedId == 2              \* msg.chat_id when the client marks the peer id
OWNER_ID == 1
Stranger == 2              \* any sender_id other than OWNER_ID

Keys == {SrcId, MarkedId}  \* str(channel_id) keys of progress.json

\* ------------------------------------------------------------- strings
\* Python strings are sequences of one-character strings.
UpperCase == <<"A","B","C","D","E","F","G","H","I","J","K","L","M",
               "N","O","P","Q","R","S","T","U","V","W","X","Y","Z">>
LowerCase == <<"a","b","c","d","e","f","g","h","i","j","k","l","m",
               "n","o","p","q","r","s","t","u","v","w","x","y","z">>

LowerChar(c) ==
    IF \E i \in 1..26 : UpperCase[i] = c
    THEN LowerCase[CHOOSE i \in 1..26 : UpperCase[i] = c]
    ELSE c

lower(s) == [i \in 1..Len(s) |-> LowerChar(s[i])]

startswith(s, p) ==
    /\ Len(p) <= Len(s)
    /\ SubSeq(s, 1, Len(p)) = p

endswith(s, p) ==
    /\ Len(p) <= Len(s)
    /\ SubSeq(s, Len(s) - Len(p) + 1, Len(s)) = p

AudioPrefix == <<"a","u","d","i","o","/">>
AudioExts == { <<".","m","p","3">>, <<".","m","4","a">>, <<".","f","l","a","c">>,
               <<".","o","g","g">>, <<".","w","a","v">>, <<".","a","a","c">>,
               <<".","a","m","r">> }

\* ------------------------------------------------------------ messages
\* A message as the code reads it: the voice / audio / document properties,
\* the document's mime_type and file_name ("" when absent), and
\* media_document, the id of msg.media.document (0 when msg.media carries no
\* document, as for a web-page preview whose audio is message.document).
MimeMpeg == <<"a","u","d","i","o","/","m","p","e","g">>
MimeOgg == <<"a","u","d","i","o","/","o","g","g">>
MimeOctet == <<"a","p","p","/","o","c","t","e","t">>
NameSongMP3 == <<"s","o","n","g",".","M","P","3">>

Message(v, a, d, mime, fname, uid) ==
    [voice |-> v, audio |-> a, document |-> d, mime_type |-> mime,
     file_name |-> fname, media_document |-> uid]

\* The source channel's message with a given id.  1 is a song; 2 is a voice
\* note; 3 is a web-page audio; 4 is the file of 1 posted again, audio by
\* its name only; every later id is a song of its own.
Msg(id) ==
    CASE id = 1 -> Message(FALSE, TRUE, TRUE, MimeMpeg, <<>>, 1)
      [] id = 2 -> Message(TRUE, FALSE, TRUE, MimeOgg, <<>>, 2)
      [] id = 3 -> Message(FALSE, TRUE, TRUE, MimeMpeg, <<>>, 0)
      [] id = 4 -> Message(FALSE, FALSE, TRUE, MimeOctet, NameSongMP3, 1)
      [] OTHER  -> Message(FALSE, TRUE, TRUE, MimeMpeg, <<>>, id)

\* The channel the program is mostly followed on: MaxMsg messages, posted
\* one after another.
MixedChannel == [id \in 1..MaxMsg |-> Msg(id)]

\* A song with a file of its own.
Song(id) == Message(FALSE, TRUE, TRUE, MimeMpeg, <<>>, id)

\* A channel of n songs, no two the same file.
SongChannel(n) == [id \in 1..n |-> Song(id)]

\* A classifier that looks at the audio tag first.
is_audio_message_AudioFirst(message) ==
    IF message.audio THEN TRUE
    ELSE IF message.voice THEN FALSE
    ELSE IF message.document
         THEN \/ startswith(message.mime_type, AudioPrefix)
              \/ \E ext \in AudioExts : endswith(lower(message.file_name), ext)
         ELSE FALSE

is_audio_message(message) ==
    IF message.voice THEN FALSE
    ELSE IF message.audio THEN TRUE
    ELSE IF message.document
         THEN \/ startswith(message.mime_type, AudioPrefix)
              \/ \E ext \in AudioExts : endswith(lower(message.file_name), ext)
         ELSE FALSE

\* --------------------------------------------------------------- state
VARIABLES
    cfg,              \* .env: BACKFILL, START_MODE, and what msg.chat_id is
    history,          \* the messages of the source channel by id, those not
                      \*   yet posted included
    arrived,          \* ids 1..arrived exist in the source channel
    progressFile,     \* progress.json: key -> last_id (0 when the key is absent)
    seenFile,         \* seen.json
    proc,             \* "run" | "cooldown" | "exit0" | "stopped" | "killed"
    paused,
    forwarded_count,
    seen_ids,
    main_pc,          \* where main() is: "boot" "backfill" "iter" "fwd" "retry"
                      \*   "prompt" "notify" "listen", "exit" when it is not running
    last_id,          \* min_id cursor of the backfill iteration
    bf_msg,           \* message the backfill's handle_message is working on
    live,             \* per message id, its NewMessage handler task
    cmd,              \* "reply" while the /pause handler is suspended in
                      \*   event.reply, "none" otherwise
    relayed,          \* history: the contents the destination has received
    twice,            \* history: the contents it has received more than once
    last              \* history: the handle_message call the program's latest
                      \*   step ended, and how; or, with no message, what else
                      \*   that step was; NoCall when it was neither

vars == <<cfg, history, arrived, progressFile, seenFile, proc, paused,
          forwarded_count, seen_ids, main_pc, last_id, bf_msg, live, cmd,
          relayed, twice, last>>

envVars == <<cfg, history, arrived>>
fileVars == <<progressFile, seenFile>>
flowVars == <<paused, forwarded_count, seen_ids>>
mainVars == <<main_pc, last_id, bf_msg>>
histVars == <<relayed, twice>>

\* ------------------------------------------------------------- channel
MsgIds == 1..Len(history)

Uids == { history[m].media_document : m \in MsgIds } \ {0}

\* What the destination gets when message m is forwarded: the file, named by
\* its content-unique id, or for a message without one the message itself.
Content == [m \in MsgIds |->
              IF history[m].media_document # 0
              THEN history[m].media_document ELSE 0 - m]

\* The classifier's verdict on each message of the channel.
IsAudio == [m \in MsgIds |-> is_audio_message(history[m])]

\* unique_id of lines 130-132: 0 stands for None.
unique_id == [m \in MsgIds |-> history[m].media_document]

\* ------------------------------------------------------- durable stores
load_progress(channel_id) == progressFile[channel_id]

save_progress(file, channel_id, id) == [file EXCEPT ![channel_id] = id]

load_seen == seenFile

\* A save that never reaches the file.
save_seen_Skipped(seen) == seenFile

\* json.dump(list(seen)) into seen.json: what load_seen reads back.
save_seen(seen) == seen

\* How a handle_message call ended: "paused" "reject" "duplicate" (the early
\* returns), "forwarded" (first attempt), "retried" (forwarded after a flood
\* wait), "abandoned" (another Exception), "stopped" (sys.exit).  With no
\* message: "ignored" (a command handler returned at the owner check),
\* "reply" (a command handler called event.reply), "fatal" (an Exception
\* left main()), "restarted" (the retry loop called main() again).
Outcome(m, how) == [msg |-> m, how |-> how]

NoCall == Outcome(0, "none")

\* --------------------------------------------------------------- Init
Configs == [BACKFILL : BOOLEAN, START_MODE : {"oldest", "latest"}, chat_id : Keys]

\* The first start of the program, with no progress.json and no seen.json.
FirstStart ==
    /\ progressFile = [k \in Keys |-> 0]
    /\ seenFile = {}
    /\ proc = "run"
    /\ paused = FALSE
    /\ forwarded_count = 0
    /\ seen_ids = load_seen
    /\ main_pc = "boot"
    /\ last_id = 0
    /\ bf_msg = 0
    /\ live = [m \in MsgIds |-> "none"]
    /\ cmd = "none"
    /\ relayed = {}
    /\ twice = {}
    /\ last = NoCall

Init ==
    /\ cfg \in Configs
    /\ history = MixedChannel
    /\ arrived \in 0..MaxMsg
    /\ FirstStart

\* ------------------------------------------------------ handle_message
\* An invocation of handle_message is named by its caller: 0 is the call in
\* backfill's loop, m > 0 is the NewMessage handler task of live message m.
Invocations == {0} \cup MsgIds

InvPc(i) == IF i = 0 THEN main_pc ELSE live[i]

InvMsg(i) == IF i = 0 THEN bf_msg ELSE i

\* "fwd": suspended in the first forward_messages; "retry": in a later one.
Forwarding(i) == InvPc(i) \in {"fwd", "retry"}

InProgress(i) == InvPc(i) \in {"fwd", "retry", "prompt"}

\* A prompt and a wait that yield to the event loop.
Blocked_Yielding == FALSE

\* input() and time.sleep() do not yield to the event loop: while one
\* invocation sits at the prompt no other coroutine of the process runs.
Blocked == \E i \in Invocations : InvPc(i) = "prompt"

LoopFree == proc = "run" /\ ~Blocked

\* handle_message without the check of paused.
HandleEnter_NoPauseCheck(m) ==
    IF ~IsAudio[m] THEN "reject"
    ELSE IF unique_id[m] # 0 /\ unique_id[m] \in seen_ids THEN "duplicate"
    ELSE "forward"

\* handle_message without the look into seen_ids.
HandleEnter_NoDupCheck(m) ==
    IF paused THEN "paused"
    ELSE IF ~IsAudio[m] THEN "reject"
    ELSE "forward"

\* Lines 125-136: what handle_message does before its first await.
HandleEnter(m) ==
    IF paused THEN "paused"
    ELSE IF ~IsAudio[m] THEN "reject"
    ELSE IF unique_id[m] # 0 /\ unique_id[m] \in seen_ids THEN "duplicate"
    ELSE "forward"

\* A forward that is not counted.
CountAfter_Stuck == forwarded_count

\* Lines 143-151: the values after a successful forward of message m.
CountAfter == forwarded_count + 1

SeenAfter(m) ==
    IF unique_id[m] # 0 THEN seen_ids \cup {unique_id[m]} ELSE seen_ids

\* A copier without the batch save.
BatchDue_Never == FALSE

BatchDue == CountAfter % DefaultSaveEvery = 0

ProgressAfterOk(m) ==
    IF BatchDue THEN save_progress(progressFile, cfg.chat_id, m) ELSE progressFile

SeenFileAfterOk(m) == IF BatchDue THEN save_seen(SeenAfter(m)) ELSE seenFile

\* handle_message returns to its caller; file is progress.json as the call
\* left it.  Backfill's loop body then runs save_progress(src.id, message.id)
\* (line 208) before the iterator is awaited again.
Return(i, file) ==
    IF i = 0
    THEN /\ main_pc' = "iter"
         /\ progressFile' = save_progress(file, SrcId, bf_msg)
         /\ UNCHANGED <<live, bf_msg, last_id>>
    ELSE /\ live' = [live EXCEPT ![i] = "none"]
         /\ progressFile' = file
         /\ UNCHANGED mainVars

SetPc(i, pc) ==
    IF i = 0
    THEN /\ main_pc' = pc
         /\ UNCHANGED <<live, bf_msg, last_id>>
    ELSE /\ live' = [live EXCEPT ![i] = pc]
         /\ UNCHANGED mainVars

\* forward_messages returned: lines 143-152.
ForwardOk(i) ==
    /\ LoopFree
    /\ Forwarding(i)
    /\ forwarded_count' = CountAfter
    /\ seen_ids' = SeenAfter(InvMsg(i))
    /\ seenFile' = SeenFileAfterOk(InvMsg(i))
    /\ Return(i, ProgressAfterOk(InvMsg(i)))
    /\ relayed' = relayed \cup {Content[InvMsg(i)]}
    /\ twice' = IF Content[InvMsg(i)] \in relayed
                THEN twice \cup {Content[InvMsg(i)]} ELSE twice
    /\ last' = Outcome(InvMsg(i), IF InvPc(i) = "retry" THEN "retried" ELSE "forwarded")
    /\ UNCHANGED <<envVars, proc, paused, cmd>>

\* forward_messages raised FloodWaitError: lines 154-157, up to input().
ForwardFloodWait(i) ==
    /\ LoopFree
    /\ Forwarding(i)
    /\ SetPc(i, "prompt")
    /\ last' = NoCall
    /\ UNCHANGED <<envVars, fileVars, proc, flowVars, cmd, relayed, twice>>

\* The operator answers the prompt: lines 158-166.  On "y" the call sleeps
\* the wait out, still holding the event loop, and forwards again.
FloodChoice(i, choice) ==
    /\ proc = "run"
    /\ InvPc(i) = "prompt"
    /\ IF choice = "y"
       THEN /\ SetPc(i, "retry")
            /\ last' = NoCall
            /\ UNCHANGED <<fileVars, proc>>
       ELSE /\ progressFile' = save_progress(progressFile, cfg.chat_id, InvMsg(i))
            /\ seenFile' = save_seen(seen_ids)
            /\ proc' = "exit0"
            /\ main_pc' = "exit"
            /\ live' = [m \in MsgIds |-> "none"]
            /\ last_id' = 0
            /\ bf_msg' = 0
            /\ last' = Outcome(InvMsg(i), "stopped")
    /\ cmd' = IF choice = "y" THEN cmd ELSE "none"
    /\ UNCHANGED <<envVars, flowVars, relayed, twice>>

\* An error branch that marks the message seen all the same.
ForwardError_MarksSeen(i) ==
    /\ LoopFree
    /\ Forwarding(i)
    /\ Return(i, progressFile)
    /\ seen_ids' = SeenAfter(InvMsg(i))
    /\ last' = Outcome(InvMsg(i), "abandoned")
    /\ UNCHANGED <<envVars, seenFile, proc, paused, forwarded_count, cmd, histVars>>

\* forward_messages raised any other Exception: lines 167-169.
ForwardError(i) ==
    /\ LoopFree
    /\ Forwarding(i)
    /\ Return(i, progressFile)
    /\ last' = Outcome(InvMsg(i), "abandoned")
    /\ UNCHANGED <<envVars, seenFile, proc, flowVars, cmd, relayed, twice>>

\* ------------------------------------------------------------ backfill
Max(a, b) == IF a >= b THEN a ELSE b

\* An iteration that takes no notice of min_id.
NextId_FromStart == bf_msg + 1

\* iter_messages(SOURCE, reverse=True, min_id=last_id): the next id above
\* the last one yielded, fetched from the channel as it is now.
NextId == Max(last_id, bf_msg) + 1

NoTasks == [m \in MsgIds |-> "none"]

\* main() up to line 233: start the client, greet, send the start notice.
MainBoot ==
    /\ LoopFree
    /\ main_pc = "boot"
    /\ main_pc' = IF cfg.BACKFILL THEN "backfill" ELSE "listen"
    /\ last' = NoCall
    /\ UNCHANGED <<envVars, fileVars, proc, flowVars, last_id, bf_msg,
                   live, cmd, relayed, twice>>

\* backfill() lines 196-205.
BackfillBegin ==
    /\ LoopFree
    /\ main_pc = "backfill"
    /\ LET loaded == load_progress(SrcId)
           iterate == ~(cfg.START_MODE = "latest" /\ loaded = 0)
                      /\ (cfg.START_MODE = "oldest" \/ loaded > 0)
       IN /\ main_pc' = IF iterate THEN "iter" ELSE "listen"
          /\ last_id' = IF iterate THEN loaded ELSE 0
    /\ bf_msg' = 0
    /\ last' = NoCall
    /\ UNCHANGED <<envVars, fileVars, proc, flowVars, live, cmd, relayed, twice>>

\* One turn of the async for (lines 206-208), or its exhaustion (209-210).
BackfillNext ==
    /\ LoopFree
    /\ main_pc = "iter"
    /\ IF NextId <= arrived
       THEN /\ bf_msg' = NextId
            /\ IF HandleEnter(NextId) = "forward"
               THEN /\ main_pc' = "fwd"
                    /\ last' = NoCall
                    /\ UNCHANGED progressFile
               ELSE /\ main_pc' = "iter"
                    /\ progressFile' = save_progress(progressFile, SrcId, NextId)
                    /\ last' = Outcome(NextId, HandleEnter(NextId))
            /\ UNCHANGED seenFile
       ELSE /\ seenFile' = save_seen(seen_ids)
            /\ main_pc' = "notify"
            /\ last' = NoCall
            /\ UNCHANGED <<progressFile, bf_msg>>
    /\ UNCHANGED <<envVars, proc, flowVars, last_id, live, cmd, relayed, twice>>

\* Line 213 returned: backfill() is over, its locals with it, and main()
\* goes on to run_until_disconnected().
BackfillNotified ==
    /\ LoopFree
    /\ main_pc = "notify"
    /\ main_pc' = "listen"
    /\ last_id' = 0
    /\ bf_msg' = 0
    /\ last' = NoCall
    /\ UNCHANGED <<envVars, fileVars, proc, flowVars, live, cmd, relayed, twice>>

\* ------------------------------------------------------- live listener
\* A message is posted in the source channel.  A connected client gets a
\* NewMessage update for it; otherwise only a later backfill can see it.
NewMessage ==
    /\ arrived < Len(history)
    /\ arrived' = arrived + 1
    /\ live' = IF proc = "run" /\ main_pc # "boot"
               THEN [live EXCEPT ![arrived + 1] = "queued"]
               ELSE live
    /\ UNCHANGED <<cfg, history, fileVars, proc, flowVars, mainVars, cmd,
                   relayed, twice, last>>

\* handler(event), lines 172-174, up to handle_message's first await.
LiveStart(m) ==
    /\ LoopFree
    /\ live[m] = "queued"
    /\ live' = [live EXCEPT ![m] = IF HandleEnter(m) = "forward" THEN "fwd" ELSE "none"]
    /\ last' = IF HandleEnter(m) = "forward" THEN NoCall ELSE Outcome(m, HandleEnter(m))
    /\ UNCHANGED <<envVars, fileVars, proc, flowVars, mainVars, cmd, relayed, twice>>

\* ------------------------------------------------------------ commands
TxtPause == <<"/","p","a","u","s","e">>
TxtResume == <<"/","r","e","s","u","m","e">>
TxtStatus == <<"/","s","t","a","t","u","s">>
\* texts the pattern lets through
Texts == { TxtPause \o <<" ">>, TxtResume, TxtStatus, TxtPause \o <<"s">> }

IsSpace(c) == c \in {" ", "\n", "\t"}

RECURSIVE lstrip(_)
lstrip(s) == IF s # <<>> /\ IsSpace(Head(s)) THEN lstrip(Tail(s)) ELSE s

RECURSIVE rstrip(_)
rstrip(s) ==
    IF s # <<>> /\ IsSpace(s[Len(s)]) THEN rstrip(SubSeq(s, 1, Len(s) - 1)) ELSE s

strip(s) == lstrip(rstrip(s))

\* pattern=r"/(pause|resume|status)" is matched at the start of the text.
PatternMatches(text) ==
    \E p \in {TxtPause, TxtResume, TxtStatus} : startswith(text, p)

\* event.raw_text.strip().lower() of each text (line 182).
CmdOf == [text \in Texts |-> lower(strip(text))]

Matching == { text \in Texts : PatternMatches(text) }

\* The command messages that are sent: each text, by the owner and by a
\* stranger.
CommandInputs == {OWNER_ID, Stranger} \X Texts

\* A handler that obeys whoever sends the command.
CommandStart_NoOwnerCheck(sender, text) ==
    /\ LoopFree
    /\ text \in Matching
    /\ LET c == CmdOf[text] IN
       IF c = TxtPause
       THEN /\ cmd = "none"
            /\ paused' = TRUE
            /\ cmd' = "reply"
            /\ last' = Outcome(0, "reply")
       ELSE IF c = TxtResume
       THEN /\ paused' = FALSE
            /\ last' = Outcome(0, "reply")
            /\ UNCHANGED cmd
       ELSE /\ last' = IF c = TxtStatus THEN Outcome(0, "reply") ELSE NoCall
            /\ UNCHANGED <<paused, cmd>>
    /\ UNCHANGED <<envVars, fileVars, proc, forwarded_count, seen_ids,
                   mainVars, live, relayed, twice>>

\* commands(event), lines 178-193, up to the await of event.reply.  The
\* replies of /resume and /status have no code after them; one handler of a
\* /pause at a time is followed through its reply.
CommandStart(sender, text) ==
    /\ LoopFree
    /\ text \in Matching
    /\ IF sender # OWNER_ID
       THEN /\ last' = Outcome(0, "ignored")
            /\ UNCHANGED <<paused, cmd>>
       ELSE LET c == CmdOf[text] IN
            IF c = TxtPause
            THEN /\ cmd = "none"
                 /\ paused' = TRUE
                 /\ cmd' = "reply"
                 /\ last' = Outcome(0, "reply")
            ELSE IF c = TxtResume
            THEN /\ paused' = FALSE
                 /\ last' = Outcome(0, "reply")
                 /\ UNCHANGED cmd
            ELSE /\ last' = IF c = TxtStatus THEN Outcome(0, "reply") ELSE NoCall
                 /\ UNCHANGED <<paused, cmd>>
    /\ UNCHANGED <<envVars, fileVars, proc, forwarded_count, seen_ids,
                   mainVars, live, relayed, twice>>

\* event.reply of /pause returned: lines 186-187, with chat the chat the
\* command was sent in.
PauseReplied(chat) ==
    /\ LoopFree
    /\ cmd = "reply"
    /\ progressFile' = save_progress(progressFile, chat, load_progress(chat))
    /\ seenFile' = save_seen(seen_ids)
    /\ cmd' = "none"
    /\ last' = NoCall
    /\ UNCHANGED <<envVars, proc, flowVars, mainVars, live, relayed, twice>>

\* event.reply of /pause raised: the handler ends at line 185.
PauseReplyFailed ==
    /\ LoopFree
    /\ cmd = "reply"
    /\ cmd' = "none"
    /\ last' = NoCall
    /\ UNCHANGED <<envVars, fileVars, proc, flowVars, mainVars, live, relayed, twice>>

\* ---------------------------------------------------------- supervisor
\* A retry loop that ends on the first Exception.
Fatal_Breaks ==
    /\ LoopFree
    /\ main_pc \in {"boot", "backfill", "iter", "notify", "listen"}
    /\ proc' = "stopped"
    /\ main_pc' = "exit"
    /\ live' = NoTasks
    /\ cmd' = "none"
    /\ last_id' = 0
    /\ bf_msg' = 0
    /\ last' = Outcome(0, "fatal")
    /\ UNCHANGED <<envVars, fileVars, flowVars, relayed, twice>>

\* An Exception leaves main() at one of its own awaits (handle_message lets
\* none out): line 246.  asyncio.run cancels the tasks that are left.
Fatal ==
    /\ LoopFree
    /\ main_pc \in {"boot", "backfill", "iter", "notify", "listen"}
    /\ proc' = "cooldown"
    /\ main_pc' = "exit"
    /\ live' = NoTasks
    /\ cmd' = "none"
    /\ last_id' = 0
    /\ bf_msg' = 0
    /\ last' = Outcome(0, "fatal")
    /\ UNCHANGED <<envVars, fileVars, flowVars, relayed, twice>>

\* run_until_disconnected() returned: main() ends and the while True of
\* line 240 calls it again at once.
Disconnected ==
    /\ LoopFree
    /\ main_pc = "listen"
    /\ main_pc' = "boot"
    /\ live' = NoTasks
    /\ cmd' = "none"
    /\ last_id' = 0
    /\ bf_msg' = 0
    /\ last' = NoCall
    /\ UNCHANGED <<envVars, fileVars, proc, flowVars, relayed, twice>>

\* time.sleep(30) of line 248 is over: the loop runs main() again, in the
\* same process, with the module's globals as they are.
Restart ==
    /\ proc = "cooldown"
    /\ proc' = "run"
    /\ main_pc' = "boot"
    /\ last' = Outcome(0, "restarted")
    /\ UNCHANGED <<envVars, fileVars, flowVars, last_id, bf_msg, live,
                   cmd, relayed, twice>>

\* Ctrl+C: KeyboardInterrupt, lines 243-245.
Interrupt ==
    /\ proc \in {"run", "cooldown"}
    /\ proc' = "stopped"
    /\ main_pc' = "exit"
    /\ live' = NoTasks
    /\ cmd' = "none"
    /\ last_id' = 0
    /\ bf_msg' = 0
    /\ last' = NoCall
    /\ UNCHANGED <<envVars, fileVars, flowVars, relayed, twice>>

\* The process is killed or the machine goes down.
Kill ==
    /\ proc \in {"run", "cooldown"}
    /\ proc' = "killed"
    /\ main_pc' = "exit"
    /\ live' = NoTasks
    /\ cmd' = "none"
    /\ last_id' = 0
    /\ bf_msg' = 0
    /\ last' = NoCall
    /\ UNCHANGED <<envVars, fileVars, flowVars, relayed, twice>>

\* python tgmusic.py is run again: the module's globals (lines 98-100) are
\* initialised anew and the retry loop calls main().
ProcessStart ==
    /\ proc \in {"exit0", "stopped", "killed"}
    /\ proc' = "run"
    /\ paused' = FALSE
    /\ forwarded_count' = 0
    /\ seen_ids' = load_seen
    /\ main_pc' = "boot"
    /\ last_id' = 0
    /\ bf_msg' = 0
    /\ last' = NoCall
    /\ UNCHANGED <<envVars, fileVars, live, cmd, relayed, twice>>

\* -------------------------------------------------- death during a write
\* open(file, "w") empties the file and json.dump fills it piece by piece
\* (lines 76-77, 83-84).  A process that dies in between leaves a file that
\* json.load rejects, and the loaders answer that with their defaults:
\* last_id 0 for every channel (lines 62-63), the empty set (lines 93-94).
TornProgress == [k \in Keys |-> 0]

TornSeen == {}

\* The process dies with progress.json and seen.json reading as pf and sf.
Killed(pf, sf) ==
    /\ proc' = "killed"
    /\ main_pc' = "exit"
    /\ live' = NoTasks
    /\ cmd' = "none"
    /\ last_id' = 0
    /\ bf_msg' = 0
    /\ last' = NoCall
    /\ progressFile' = pf
    /\ seenFile' = sf
    /\ UNCHANGED envVars

\* forward_messages returned and the process dies in a write that follows:
\* the batch's save_progress (line 149) or save_seen (line 150), or the
\* save_progress of backfill's loop (line 208).
KillInSaveAfterOk(i, write) ==
    /\ LoopFree
    /\ Forwarding(i)
    /\ IF write = "loop" THEN i = 0 ELSE BatchDue
    /\ forwarded_count' = CountAfter
    /\ seen_ids' = SeenAfter(InvMsg(i))
    /\ relayed' = relayed \cup {Content[InvMsg(i)]}
    /\ twice' = IF Content[InvMsg(i)] \in relayed
                THEN twice \cup {Content[InvMsg(i)]} ELSE twice
    /\ CASE write = "batch progress" -> Killed(TornProgress, seenFile)
         [] write = "batch seen" -> Killed(ProgressAfterOk(InvMsg(i)), TornSeen)
         [] write = "loop" -> Killed(TornProgress, SeenFileAfterOk(InvMsg(i)))
    /\ UNCHANGED paused

\* The operator declines and the process dies in line 164 or line 165.
KillInSaveOnStop(i, write) ==
    /\ proc = "run"
    /\ InvPc(i) = "prompt"
    /\ IF write = "progress"
       THEN Killed(TornProgress, seenFile)
       ELSE Killed(save_progress(progressFile, cfg.chat_id, InvMsg(i)), TornSeen)
    /\ UNCHANGED <<flowVars, relayed, twice>>

\* The /pause handler dies in line 186 or line 187.
KillInSaveOnPause(chat, write) ==
    /\ LoopFree
    /\ cmd = "reply"
    /\ IF write = "progress"
       THEN Killed(TornProgress, seenFile)
       ELSE Killed(save_progress(progressFile, chat, load_progress(chat)), TornSeen)
    /\ UNCHANGED <<flowVars, relayed, twice>>

\* Backfill's loop dies in line 208 after a handle_message call that
\* delivered nothing: it returned early, or forward_messages raised.
KillInSaveInLoop ==
    /\ LoopFree
    /\ \/ main_pc = "iter" /\ NextId <= arrived /\ HandleEnter(NextId) # "forward"
       \/ Forwarding(0)
    /\ Killed(TornProgress, seenFile)
    /\ UNCHANGED <<flowVars, relayed, twice>>

\* Backfill dies in line 209.
KillInSaveAtEnd ==
    /\ LoopFree
    /\ main_pc = "iter"
    /\ NextId > arrived
    /\ Killed(progressFile, TornSeen)
    /\ UNCHANGED <<flowVars, relayed, twice>>

\* ---------------------------------------------------------------- Next
Next ==
    \/ MainBoot
    \/ BackfillBegin
    \/ BackfillNext
    \/ BackfillNotified
    \/ NewMessage
    \/ \E m \in MsgIds : LiveStart(m)
    \/ \E i \in Invocations : ForwardOk(i)
    \/ \E i \in Invocations : ForwardFloodWait(i)
    \/ \E i \in Invocations, choice \in {"y", "n"} : FloodChoice(i, choice)
    \/ \E i \in Invocations : ForwardError(i)
    \/ \E c \in CommandInputs : CommandStart(c[1], c[2])
    \/ \E chat \in Keys : PauseReplied(chat)
    \/ PauseReplyFailed
    \/ Fatal
    \/ Disconnected
    \/ Restart
    \/ Interrupt
    \/ Kill
    \/ ProcessStart

Spec == Init /\ [][Next]_vars

\* The program with the deaths during a write.
NextCrash ==
    \/ Next
    \/ \E i \in Invocations, write \in {"batch progress", "batch seen", "loop"} :
          KillInSaveAfterOk(i, write)
    \/ \E i \in Invocations, write \in {"progress", "seen"} : KillInSaveOnStop(i, write)
    \/ \E chat \in Keys, write \in {"progress", "seen"} : KillInSaveOnPause(chat, write)
    \/ KillInSaveInLoop
    \/ KillInSaveAtEnd

SpecCrash == Init /\ [][NextCrash]_vars

\* ------------------------------------------------------- voice messages
\* A voice message with whatever else a message can carry: an audio tag, a
\* document, an audio or other mime type, a file name with an audio
\* extension.
VoiceMessages ==
    { Message(TRUE, a, d, mime, fname, 1) :
        a \in BOOLEAN, d \in BOOLEAN,
        mime \in {MimeMpeg, MimeOgg, MimeOctet}, fname \in {<<>>, NameSongMP3} }

\* Channels that open with a voice message and go on with songs.
VoiceChannels ==
    { [id \in 1..MaxMsg |-> IF id = 1 THEN v ELSE Song(id)] : v \in VoiceMessages }

InitVoice ==
    /\ cfg \in Configs
    /\ history \in VoiceChannels
    /\ arrived \in 0..Len(history)
    /\ FirstStart

\* The processing of messages, live and by backfill, over the runs of
\* main() and the starts of the program.
NextVoice ==
    \/ MainBoot
    \/ BackfillBegin
    \/ BackfillNext
    \/ BackfillNotified
    \/ NewMessage
    \/ \E m \in MsgIds : LiveStart(m)
    \/ \E i \in Invocations : ForwardOk(i)
    \/ \E i \in Invocations : ForwardError(i)
    \/ Disconnected
    \/ Kill
    \/ ProcessStart

SpecVoice == InitVoice /\ [][NextVoice]_vars

\* ------------------------------------------------- an undisturbed backfill
\* The first start with BACKFILL on and START_MODE=oldest on a channel of
\* songs, no two the same file, to which nothing is posted any more; no
\* command comes, forward_messages never raises and nothing else fails.
ScenarioLen == MaxMsg + DefaultSaveEvery

InitScenario ==
    /\ cfg \in { c \in Configs : c.BACKFILL /\ c.START_MODE = "oldest" }
    /\ history \in { SongChannel(n) : n \in 0..ScenarioLen }
    /\ arrived = Len(history)
    /\ FirstStart

NextScenario ==
    \/ MainBoot
    \/ BackfillBegin
    \/ BackfillNext
    \/ ForwardOk(0)
    \/ BackfillNotified

\* The event loop runs a coroutine that can run, and a forward_messages
\* that does not fail returns.
SpecScenario == InitScenario /\ [][NextScenario]_vars /\ WF_vars(NextScenario)

\* ============================================================== claims

\* C1: for every content-unique id u, the destination receives at most one
\* successful forward of a message carrying u, over any sequence of
\* backfill items, live items, crashes and process restarts.
C1_AtMostOnceRelay == \A u \in Uids : u \notin twice

\* C2: no write to progress.json ever replaces a stored last_id of a channel
\* with a smaller value.
C2_CheckpointMonotonic ==
    [][\A k \in Keys : progressFile'[k] >= progressFile[k]]_vars

\* Message n needs no further delivery: the classifier rejects it, or the
\* destination has its content.
Settled(n) == ~IsAudio[n] \/ Content[n] \in relayed

\* C3: id N is persisted as a channel's checkpoint only once message N has
\* been forwarded or skipped as a reject or a duplicate, never while N is
\* still undelivered.
C3_CheckpointOnlyAfterProcessed ==
    \A k \in Keys : progressFile[k] # 0 => Settled(progressFile[k])

\* C4 as stated: once paused is true nothing is delivered to the destination
\* until /resume, whatever invocation is in progress.
C4_NoDeliveryWhilePaused ==
    [][(paused /\ proc = "run" /\ proc' = "run")
          => forwarded_count' = forwarded_count]_vars

\* C4 as amended: while paused is true no handle_message call gets past its
\* pause check to a delivery attempt; only a call that was already in its
\* delivery loop when /pause came can still deliver.
C4_PausedCallsDoNotDeliver ==
    [][paused => \A i \in Invocations :
                    InProgress(i)' => (InProgress(i) /\ InvMsg(i)' = InvMsg(i))]_vars

\* A call made while paused has just returned at its pause check.
C4_Witness == paused /\ last.how = "paused" /\ IsAudio[last.msg]

\* C5: while paused is true the checkpoint of no channel advances.
C5_NoCheckpointAdvanceWhilePaused ==
    [][paused => \A k \in Keys : progressFile'[k] <= progressFile[k]]_vars

\* C6: at most one handle_message invocation is in progress (between its
\* dedup check and its return) at any time.
C6_OneRelayOperationAtATime ==
    Cardinality({ i \in Invocations : InProgress(i) }) <= 1

\* C7: from the rate-limit prompt a call either stays there, retries, is
\* interrupted or killed, or (the operator declines) saves the checkpoint
\* and seen_ids at once and ends the process with exit status 0; after that
\* exit the retry loop neither cools down nor runs main() again, and nothing
\* is processed until the program is started anew.
C7_DeclineFlushesAndExits ==
    [][/\ \A i \in Invocations : InvPc(i) = "prompt" =>
             \/ InvPc(i)' \in {"prompt", "retry"}
             \/ proc' \in {"stopped", "killed"}
             \/ /\ proc' = "exit0"
                /\ last' = Outcome(InvMsg(i), "stopped")
                /\ progressFile' = save_progress(progressFile, cfg.chat_id, InvMsg(i))
                /\ seenFile' = seen_ids
                /\ main_pc' = "exit"
                /\ live' = NoTasks
                /\ UNCHANGED <<flowVars, histVars>>
       /\ proc = "exit0" =>
             \/ UNCHANGED <<fileVars, proc, flowVars, mainVars, live, cmd, histVars, last>>
             \/ /\ proc' = "run"
                /\ main_pc' = "boot"
                /\ forwarded_count' = 0
                /\ seen_ids' = seenFile
                /\ UNCHANGED <<fileVars, histVars>>]_vars

\* The operator has declined and the process has exited with something in
\* seen_ids to flush.
C7_Witness ==
    /\ proc = "exit0"
    /\ last.how = "stopped"
    /\ seen_ids # {}
    /\ seenFile = seen_ids
    /\ progressFile[cfg.chat_id] = last.msg

\* C8: while a call is at the rate-limit prompt (waiting included) no other
\* call starts or moves and forwarded_count and seen_ids stay as they are;
\* the call then retries the same message; and the step in which a retry
\* succeeds adds exactly one to forwarded_count and the message's unique id
\* (if any) to seen_ids.
C8_WaitThenRetrySameItem ==
    [][\A i \in Invocations :
          /\ (InvPc(i) = "prompt" /\ proc' = "run") =>
                /\ InvPc(i)' \in {"prompt", "retry"}
                /\ InvMsg(i)' = InvMsg(i)
                /\ \A j \in Invocations \ {i} :
                      \/ InvPc(j)' = InvPc(j) /\ InvMsg(j)' = InvMsg(j)
                      \/ InvPc(j) = "none" /\ InvPc(j)' = "queued"
                /\ UNCHANGED <<forwarded_count, seen_ids>>
          /\ (Forwarding(i) /\ InvPc(i)' = "prompt") =>
                UNCHANGED <<forwarded_count, seen_ids, histVars>>
          /\ (InvPc(i) = "retry" /\ ~InProgress(i)' /\ last'.how = "retried") =>
                /\ last'.msg = InvMsg(i)
                /\ forwarded_count' = forwarded_count + 1
                /\ seen_ids' = SeenAfter(InvMsg(i))
                /\ Content[InvMsg(i)] \in relayed']_vars

\* A forward has just succeeded after a rate-limit wait.
C8_Witness == last.how = "retried" /\ proc = "run" /\ forwarded_count > 0

\* C9: when forward_messages raises an Exception other than FloodWaitError
\* the call ends without retry, forwarded_count, seen_ids and both files'
\* seen data are unchanged, nothing reached the destination, the process
\* keeps running, and backfill goes on to its next item.
C9_OtherErrorAbandonsItem ==
    [][\A i \in Invocations :
          (Forwarding(i) /\ InvPc(i)' # InvPc(i) /\ last'.how = "abandoned") =>
             /\ ~InProgress(i)'
             /\ last'.msg = InvMsg(i)
             /\ proc' = "run"
             /\ UNCHANGED <<forwarded_count, seen_ids, seenFile, histVars>>
             /\ \A j \in Invocations \ {i} : InvPc(j)' = InvPc(j)
             /\ i = 0 => main_pc' = "iter"]_vars

\* A delivery has just been abandoned and backfill stands before its next item.
C9_Witness ==
    /\ last.how = "abandoned"
    /\ proc = "run"
    /\ main_pc = "iter"
    /\ unique_id[last.msg] \notin seen_ids

\* C10: when the operator interrupt has stopped the program, seen.json holds
\* the in-memory seen_ids.
C10_SeenSavedOnInterrupt == proc = "stopped" => seenFile = seen_ids

\* C11: when the process dies, a write included, the next start reads from
\* each file either what it held before the step or the complete content
\* the step was writing: seen.json the old set or seen_ids, progress.json
\* the old table or the old table with one channel's last_id set.
C11_FlushLandsOrIsNotObserved ==
    [][(proc # "killed" /\ proc' = "killed") =>
          /\ seenFile' \in {seenFile, seen_ids'}
          /\ \/ progressFile' = progressFile
             \/ \E k \in Keys, id \in 0..arrived :
                   progressFile' = save_progress(progressFile, k, id)]_vars

\* C12: backfill's iteration is fixed by START_MODE and the checkpoint K it
\* loads.  With "latest" and K = 0 it hands handle_message nothing and goes
\* on to listen with both files untouched; otherwise it starts at K, every
\* item it hands is the one right above the last handed (the first right
\* above K), so ids rise strictly and none comes twice, and it ends only
\* when no item of the channel above the last one is left.
C12_BackfillIteratorOutput ==
    [][/\ (main_pc = "backfill" /\ main_pc' # "backfill" /\ proc' = "run") =>
             IF cfg.START_MODE = "latest" /\ progressFile[SrcId] = 0
             THEN main_pc' = "listen" /\ UNCHANGED fileVars
             ELSE main_pc' = "iter" /\ last_id' = progressFile[SrcId] /\ bf_msg' = 0
       /\ main_pc' = "iter" => main_pc \in {"backfill", "iter", "fwd", "retry"}
       /\ (bf_msg' # bf_msg /\ bf_msg' # 0) =>
             /\ main_pc = "iter"
             /\ bf_msg' = (IF bf_msg = 0 THEN last_id ELSE bf_msg) + 1
             /\ bf_msg' <= arrived
             /\ last_id' = last_id
       /\ (main_pc = "iter" /\ main_pc' = "notify") =>
             (IF bf_msg = 0 THEN last_id ELSE bf_msg) >= arrived]_vars

\* In mode "latest" a backfill that found a checkpoint has handed on the
\* items above it and is over.
C12_Witness ==
    /\ cfg.START_MODE = "latest"
    /\ main_pc = "notify"
    /\ last_id > 0
    /\ bf_msg > last_id
    /\ bf_msg = arrived

\* Backfill is over and every message of the channel has been relayed once
\* and counted, with the checkpoint on the last of them.
ScenarioDone ==
    /\ main_pc = "listen"
    /\ relayed = { Content[m] : m \in MsgIds }
    /\ twice = {}
    /\ progressFile[SrcId] = Len(history)
    /\ seen_ids = { unique_id[m] : m \in MsgIds }
    /\ Cardinality(seen_ids) = Len(history)
    /\ forwarded_count = Len(history)

\* C13: a backfill in mode oldest from checkpoint 0 over n songs with
\* distinct unseen files, with no pause and no delivery error, relays them
\* in rising id order and comes to its end with all n relayed, the
\* checkpoint at the largest id, the n ids in seen_ids and
\* forwarded_count = n.
C13_BackfillCompletes ==
    /\ [][\A c \in relayed' \ relayed : \A d \in relayed : d < c]_vars
    /\ <>[]ScenarioDone

\* The case of the three items 1, 2, 3, completed.
C13_Witness ==
    /\ Len(history) = 3
    /\ main_pc = "listen"
    /\ relayed = {1, 2, 3}
    /\ progressFile[SrcId] = 3
    /\ forwarded_count = 3

\* How a call on a message whose file is in seen_ids must end.
SkipOf(m) ==
    Outcome(m, IF paused THEN "paused" ELSE IF ~IsAudio[m] THEN "reject" ELSE "duplicate")

\* C14: a handle_message call on a message whose unique id is in seen_ids
\* ends at once as a skip: nothing goes to the destination, forwarded_count
\* and seen_ids stay as they are, and when backfill made the call the
\* checkpoint of the source moves to the message's id all the same.
C14_SeenMessageIsSkipped ==
    [][/\ \A m \in MsgIds :
             (/\ live[m] = "queued" /\ live'[m] # "queued"
              /\ proc' = "run" /\ main_pc' = main_pc
              /\ unique_id[m] # 0 /\ unique_id[m] \in seen_ids) =>
                /\ live'[m] = "none"
                /\ last' = SkipOf(m)
                /\ UNCHANGED <<forwarded_count, seen_ids, relayed, twice, fileVars>>
       /\ (/\ bf_msg' # bf_msg /\ bf_msg' # 0
           /\ unique_id[bf_msg'] # 0 /\ unique_id[bf_msg'] \in seen_ids) =>
             /\ main_pc' = "iter"
             /\ last' = SkipOf(bf_msg')
             /\ progressFile' = save_progress(progressFile, SrcId, bf_msg')
             /\ UNCHANGED <<forwarded_count, seen_ids, relayed, twice, seenFile>>]_vars

\* Backfill has just skipped a message as a duplicate and moved the
\* checkpoint to it.
C14_Witness ==
    /\ last.how = "duplicate"
    /\ main_pc = "iter"
    /\ bf_msg = last.msg
    /\ progressFile[SrcId] = bf_msg
    /\ unique_id[bf_msg] \in seen_ids

\* C15: the handler of a /pause, /resume or /status message whose sender is
\* not OWNER_ID returns without calling event.reply and leaves paused,
\* forwarded_count, seen_ids, progress.json and seen.json as they are.
C15_StrangersAreIgnored ==
    [][\A c \in CommandInputs :
          (c[1] # OWNER_ID /\ CommandStart(c[1], c[2])) =>
             /\ last' = Outcome(0, "ignored")
             /\ UNCHANGED <<paused, forwarded_count, seen_ids, fileVars, cmd>>]_vars

\* A stranger's command has just been ignored while the copier is paused
\* with deliveries behind it.
C15_Witness == last.how = "ignored" /\ paused /\ forwarded_count > 0

\* C16: the handler of the owner's /pause, once it has set paused, does not
\* end (whether event.reply returned or raised) without having written
\* seen_ids to seen.json, the process and main() being still alive.
C16_PauseAlwaysFlushes ==
    [][(cmd = "reply" /\ cmd' = "none" /\ proc' = "run" /\ main_pc' = main_pc) =>
          seenFile' = seen_ids]_vars

\* C17: an Exception that leaves main() puts the retry loop into its
\* cooldown; from the cooldown the loop can always go on, whatever came
\* before, and when it does it runs main() from the top in the same
\* process; only an interrupt or the death of the process keeps it from
\* that.  After an operator interrupt nothing runs until the program is
\* started anew.
C17_SupervisorRestarts ==
    [][/\ (last'.how = "fatal" /\ last.how # "fatal") =>
             /\ proc = "run" /\ proc' = "cooldown"
             /\ main_pc' = "exit" /\ live' = NoTasks
       /\ proc = "cooldown" =>
             /\ ENABLED Restart
             /\ \/ proc' \in {"cooldown", "stopped", "killed"}
                \/ /\ proc' = "run" /\ main_pc' = "boot"
                   /\ last'.how = "restarted"
                   /\ UNCHANGED <<fileVars, flowVars>>
       /\ (last'.how = "restarted" /\ last.how # "restarted") => proc = "cooldown"
       /\ proc = "stopped" =>
             \/ UNCHANGED <<fileVars, proc, flowVars, mainVars, live, cmd, histVars, last>>
             \/ /\ proc' = "run" /\ main_pc' = "boot"
                /\ last'.how # "restarted"
                /\ ~paused' /\ forwarded_count' = 0 /\ seen_ids' = seenFile]_vars

\* The retry loop has just called main() again after a cooldown, in a
\* process that had forwarded something.
C17_Witness ==
    /\ last.how = "restarted"
    /\ proc = "run"
    /\ main_pc = "boot"
    /\ forwarded_count > 0

\* C18: whenever main() is called, at the start of a process or by the
\* retry loop after a failure, paused is false and forwarded_count is 0.
C18_FlowStateFreshEachRun ==
    [][(proc # "run" /\ proc' = "run" /\ main_pc' = "boot") =>
          (~paused' /\ forwarded_count' = 0)]_vars

\* C19: a voice message, whatever its audio tag, document, mime type and
\* file name, is rejected by the classifier, and no processing, live or by
\* backfill, makes a delivery attempt for it, brings its content to the
\* destination or its id into seen_ids; the step that ends a call on it
\* ends it at the pause or classifier check and leaves forwarded_count and
\* seen_ids as they are.
C19_VoiceNeverForwarded ==
    [][\A m \in MsgIds : history[m].voice =>
          /\ ~is_audio_message(history[m])
          /\ ~InProgress(m)'
          /\ ~(bf_msg' = m /\ InProgress(0)')
          /\ Content[m] \notin relayed'
          /\ unique_id[m] \notin seen_ids'
          /\ last'.msg = m =>
                /\ last'.how \in {"paused", "reject"}
                /\ UNCHANGED <<forwarded_count, seen_ids, histVars>>]_vars

\* A voice message that carries an audio tag and a file name ending in
\* .mp3 has just been rejected while something else was forwarded.
C19_Witness ==
    /\ last.how = "reject"
    /\ history[last.msg].voice
    /\ history[last.msg].audio
    /\ history[last.msg].file_name = NameSongMP3
    /\ forwarded_count > 0

\* ------------------------------------------------------- a long channel
\* A channel with more songs than a batch, most of them posted before the
\* program starts.
InitBatch ==
    /\ cfg \in Configs
    /\ history = SongChannel(ScenarioLen)
    /\ arrived \in (Len(history) - 1)..Len(history)
    /\ FirstStart

\* Deliveries, live and by backfill, the restarts of main() and the deaths
\* and new starts of the process, with every write to a file landing whole;
\* no command comes and forward_messages does not raise.
NextBatch ==
    \/ MainBoot
    \/ BackfillBegin
    \/ BackfillNext
    \/ BackfillNotified
    \/ NewMessage
    \/ \E m \in MsgIds : LiveStart(m)
    \/ \E i \in Invocations : ForwardOk(i)
    \/ Fatal
    \/ Disconnected
    \/ Restart
    \/ Kill
    \/ ProcessStart

SpecBatch == InitBatch /\ [][NextBatch]_vars

\* C20: the unique ids that are in seen_ids and not in seen.json are fewer
\* than save_every (10).
C20_UnsavedSeenBelowBatch ==
    Cardinality(seen_ids \ seenFile) < DefaultSaveEvery

\* The tenth delivery of a backfill has just flushed seen_ids to seen.json.
C20_Witness ==
    /\ last.how = "forwarded"
    /\ main_pc = "iter"
    /\ forwarded_count = DefaultSaveEvery
    /\ Cardinality(seen_ids) = DefaultSaveEvery
    /\ seenFile = seen_ids

====
